---- MODULE Spec2Model ----
(***************************************************************************)
(* Model of core/adaptive_rgb_stego.py: the adaptive, key-driven LSB       *)
(* embedding scheme (embed_adaptive_rgb / extract_adaptive_rgb) and its    *)
(* helpers.                                                                *)
(*                                                                         *)
(* Representation choices                                                   *)
(*  - a byte is an integer 0..255; a bit is 0 or 1;                         *)
(*  - a uint32 is a sequence of 32 bits, least significant first (TLC's    *)
(*    integers are 32-bit signed, so 0xFFFFFFFF does not fit in one);      *)
(*  - a pixel array is a function from <<y, x, ch>> to a byte;             *)
(*  - random.Random (Mersenne Twister seeded from SHA-256 of the key) is   *)
(*    replaced by a 16-bit linear congruential generator seeded from a     *)
(*    table of per-key seeds: what is kept is that the generator is a      *)
(*    deterministic state machine, created per call, whose state is        *)
(*    threaded through shuffle / random / getrandbits in the code's order; *)
(*  - the float32 luma arithmetic of _compute_noise_scores is done in      *)
(*    exact thousandths.                                                   *)
(***************************************************************************)
EXTENDS Integers, Sequences, FiniteSets, TLC

(* ------------------------------ bounds --------------------------------- *)
\* longest payload, in bytes, that the runs embed
MaxPayloadLen == 2
\* image height and width of the carriers
ImgH == 14
ImgW == 14
WideH == 18
WideW == 20
WideLen == 47
MaxHeaderLen == 260
MaxGaps == 42

(* -------------------------------- state -------------------------------- *)
\* files: the input image, the payload file, and the two output paths
\*        (written = the output paths that exist; flipped = the header bit
\*        damaged between the calls, or -1);
\* emb:   the locals of the one embed_adaptive_rgb call;
\* ext:   the locals of the one extract_adaptive_rgb call (on the stego image).
VARIABLES files, emb, ext
vars == <<files, emb, ext>>

(* --------------------------- program constants ------------------------- *)
MAGIC == <<65, 82, 83, 71>>
HEADER_SIZE_BYTES == 16
HEADER_SIZE_BITS == HEADER_SIZE_BYTES * 8

(* ------------------------------ bit helpers ---------------------------- *)
Pow2(n) == 2 ^ n

\* (byte >> i) & 1
BitOf(byte, i) == (byte \div Pow2(i)) % 2

\* (mutant) inclusive or in place of exclusive or
Xor1_Or(a, b) == IF a + b > 0 THEN 1 ELSE 0

Xor1(a, b) == (a + b) % 2

\* (mutant) every byte, most significant bit first
_bytes_to_bits_Msb(b) ==
    [k \in 1..(8 * Len(b)) |-> BitOf(b[((k - 1) \div 8) + 1], 7 - ((k - 1) % 8))]

\* _bytes_to_bits: every byte, least significant bit first
_bytes_to_bits(b) ==
    [k \in 1..(8 * Len(b)) |-> BitOf(b[((k - 1) \div 8) + 1], (k - 1) % 8)]

Min(a, b) == IF a < b THEN a ELSE b

\* one chunk of _bits_to_bytes: byte |= (bit & 1) << j over the chunk
RECURSIVE ChunkByte(_, _)
ChunkByte(chunk, j) ==
    IF j > Len(chunk) THEN 0
    ELSE (chunk[j] % 2) * Pow2(j - 1) + ChunkByte(chunk, j + 1)

\* _bits_to_bytes: chunks of 8 bits (the last one may be shorter)
_bits_to_bytes(bits) ==
    [k \in 1..((Len(bits) + 7) \div 8) |->
        ChunkByte(SubSeq(bits, 8 * (k - 1) + 1, Min(8 * k, Len(bits))), 1)]

(* ------------------------------- uint32 -------------------------------- *)
\* value & 0xFFFFFFFF of a non-negative integer, as 32 bits
U32(n) == [k \in 1..32 |-> IF k <= 30 THEN BitOf(n, k - 1) ELSE 0]

\* (~v) & 0xFFFFFFFF
Not32(v) == [k \in 1..32 |-> 1 - v[k]]

Xor32(a, b) == [k \in 1..32 |-> Xor1(a[k], b[k])]

\* (mutant) most significant byte first
ToBytesLE_Big(v) == _bits_to_bytes(SubSeq(v, 25, 32) \o SubSeq(v, 17, 24) \o SubSeq(v, 9, 16) \o SubSeq(v, 1, 8))

\* v.to_bytes(4, "little")
ToBytesLE(v) == _bits_to_bytes(v)

\* int.from_bytes(b, "little") & 0xFFFFFFFF for at most 4 bytes
\* (a slice that ran off the end of the header is shorter: zero-extended)
FromBytesLE(b) ==
    LET bits == _bytes_to_bits(b)
    IN  [k \in 1..32 |-> IF k <= Len(bits) THEN bits[k] ELSE 0]

\* the integer a uint32 stands for, saturated at 2^24 (TLC integers are
\* 32 bits; every use compares the value with a list length far below 2^24)
RECURSIVE IntOfBits(_, _)
IntOfBits(v, k) ==
    IF k > 24 THEN 0
    ELSE v[k] * Pow2(k - 1) + IntOfBits(v, k + 1)
IntSat(v) ==
    IF \E k \in 25..32 : v[k] = 1 THEN Pow2(24) ELSE IntOfBits(v, 1)

(* -------------------------------- CRC32 -------------------------------- *)
\* 0xEDB88320, the reflected CRC-32 polynomial used by zlib
CrcPoly ==
    <<0,0,0,0,0,1,0,0, 1,1,0,0,0,0,0,1, 0,0,0,1,1,1,0,1, 1,0,1,1,0,1,1,1>>

ShiftRight1(v) == Tail(v) \o <<0>>

RECURSIVE CrcRounds(_, _)
CrcRounds(reg, n) ==
    IF n = 0 THEN reg
    ELSE CrcRounds(IF reg[1] = 1 THEN Xor32(ShiftRight1(reg), CrcPoly)
                   ELSE ShiftRight1(reg), n - 1)

\* (a register bit is 0 or 1: the second test is never true, it has the
\* register computed before the next byte is taken up)
RECURSIVE CrcBytes(_, _, _)
CrcBytes(reg, b, i) ==
    IF i > Len(b) \/ reg[1] > 1 THEN reg
    ELSE CrcBytes(CrcRounds(Xor32(reg, U32(b[i])), 8), b, i + 1)

\* zlib.crc32(b) & 0xFFFFFFFF
crc32(b) == Not32(CrcBytes([k \in 1..32 |-> 1], b, 1))

(* -------------------------------- header ------------------------------- *)
\* _build_header: MAGIC + length + ~length + crc32, little-endian fields
_build_header(payload) ==
    LET length == U32(Len(payload))
        crc == crc32(payload)
        length_inv == Not32(length)
    IN  MAGIC \o ToBytesLE(length) \o ToBytesLE(length_inv) \o ToBytesLE(crc)

\* b[lo:hi] of Python (0-based, half-open, clipped to the length)
Slice(s, lo, hi) == SubSeq(s, lo + 1, Min(hi, Len(s)))

\* _parse_header: (magic, payload_len, payload_len_inv, payload_crc)
_parse_header(b) ==
    [magic |-> Slice(b, 0, 4),
     payload_len |-> FromBytesLE(Slice(b, 4, 8)),
     payload_len_inv |-> FromBytesLE(Slice(b, 8, 12)),
     payload_crc |-> FromBytesLE(Slice(b, 12, 16))]

(* ------------------------------ generator ------------------------------ *)
\* The keys the runs use, and the seed each one hashes to
\* (int.from_bytes(sha256(key).digest(), "big") in the code: an injective
\* table here).
Keys == {"testkey", "otherkey"}
\* (mutant) every key gives the same seed
KeySeed_Const(key) == 20113

KeySeed(key) == IF key = "testkey" THEN 20113 ELSE 10089

\* (mutant) one module-level generator shared by the calls: a later call
\* continues from where the embed call left it
_rng_from_key_Shared(key) == IF emb.rng >= 0 THEN emb.rng ELSE KeySeed(key)

\* _rng_from_key: a fresh generator, seeded from the key alone
_rng_from_key(key) == KeySeed(key)

\* one step of the generator: the new state, which is also the output word
RngWord(rng) == (rng * 25173 + 13849) % 65536

\* rng.getrandbits(k), k <= 16: the top k bits of the next word
getrandbits(rng, k) ==
    LET w == RngWord(rng) IN [val |-> w \div Pow2(16 - k), rng |-> w]

\* rng.random(): two words make one uniform value; val is its numerator
\* over 2^26
random(rng) ==
    LET w1 == RngWord(rng)
        w2 == RngWord(w1)
    IN  [val |-> (w1 \div 8) * 8192 + (w2 \div 8), rng |-> w2]

\* r < num/den for the value random() returned
RandLess(val, num, den) == val * den < num * Pow2(26)

\* n.bit_length()
RECURSIVE bit_length(_)
bit_length(n) == IF n = 0 THEN 0 ELSE 1 + bit_length(n \div 2)

\* Random._randbelow: draw bit_length(n) bits until the value is below n
RECURSIVE randbelow_loop(_, _, _)
randbelow_loop(rng, n, k) ==
    LET d == getrandbits(rng, k)
    IN  IF d.val < n THEN d ELSE randbelow_loop(d.rng, n, k)
_randbelow(rng, n) == randbelow_loop(rng, n, bit_length(n))

\* Random.shuffle: for i in reversed(range(1, len(x))): j = randbelow(i + 1);
\* x[i], x[j] = x[j], x[i]        (i is the 0-based index)
\* st is the pair (list so far, generator); the iterations hi, hi-1, .., lo
\* run in that order (the range is halved to keep the evaluation shallow)
shuffle_step(st, i) ==
    LET d == _randbelow(st.rng, i + 1)
        j == d.val
        x == st.val
    IN  [val |-> [x EXCEPT ![i + 1] = x[j + 1], ![j + 1] = x[i + 1]],
         rng |-> d.rng]
RECURSIVE shuffle_range(_, _, _)
shuffle_range(st, hi, lo) ==
    IF hi < lo \/ st.rng < 0 THEN st   \* (reading st.rng evaluates st first)
    ELSE IF hi = lo THEN shuffle_step(st, hi)
    ELSE LET mid == (hi + lo) \div 2
         IN  shuffle_range(shuffle_range(st, hi, mid + 1), mid, lo)
shuffle(rng, x) == shuffle_range([val |-> x, rng |-> rng], Len(x) - 1, 1)

\* _keystream_bits: (n_bits + 7) // 8 bytes of 8 bits, least significant
\* first, cut to n_bits
RECURSIVE keystream_bytes(_, _)
keystream_bytes(rng, n) ==
    IF n = 0 THEN [val |-> <<>>, rng |-> rng]
    ELSE LET d == getrandbits(rng, 8)
             rest == keystream_bytes(d.rng, n - 1)
         IN  [val |-> <<d.val>> \o rest.val, rng |-> rest.rng]
_keystream_bits(rng, n_bits) ==
    LET d == keystream_bytes(rng, (n_bits + 7) \div 8)
    IN  [val |-> SubSeq(_bytes_to_bits(d.val), 1, n_bits), rng |-> d.rng]

(* ------------------------------ noise scorer --------------------------- *)
Abs(a) == IF a < 0 THEN -a ELSE a
Clamp(v, lo, hi) == IF v < lo THEN lo ELSE IF v > hi THEN hi ELSE v

\* byte & 0xFE
ClearLsb(byte) == byte - (byte % 2)

\* (mutant) the noise is scored on the raw bytes, LSB included
CleanByte_Raw(byte) == byte

\* arr_clean = arr & 0xFE
CleanByte(byte) == ClearLsb(byte)

\* Y = 0.299 R + 0.587 G + 0.114 B of the cleaned pixel, in thousandths
Luma(px, y, x) ==
    299 * CleanByte(px[<<y, x, 0>>]) + 587 * CleanByte(px[<<y, x, 1>>])
        + 114 * CleanByte(px[<<y, x, 2>>])

\* the 8 neighbours of np.pad(Y, 1, mode="edge"): coordinates are clamped
NeighbourOffsets ==
    {<<-1, -1>>, <<-1, 0>>, <<-1, 1>>, <<0, -1>>, <<0, 1>>, <<1, -1>>, <<1, 0>>, <<1, 1>>}

RECURSIVE SumOver(_, _)
SumOver(S, f) ==
    IF S = {} THEN 0
    ELSE LET e == CHOOSE e \in S : TRUE IN f[e] + SumOver(S \ {e}, f)

\* np.pad(Y, ((1,1),(1,1)), mode="edge") has no edge to replicate along an
\* empty axis and raises ValueError: the scorer fails on an array with H = 0
\* or W = 0
PadFails(arr) == arr.H = 0 \/ arr.W = 0

\* _compute_noise_scores: mean absolute luma difference to the 8 neighbours,
\* truncated to an unsigned integer
_compute_noise_scores(arr) ==
    [p \in (0..(arr.H - 1)) \X (0..(arr.W - 1)) |->
        LET Y == Luma(arr.px, p[1], p[2])
            d == [o \in NeighbourOffsets |->
                    Abs(Y - Luma(arr.px, Clamp(p[1] + o[1], 0, arr.H - 1),
                                         Clamp(p[2] + o[2], 0, arr.W - 1)))]
        IN  SumOver(NeighbourOffsets, d) \div 8000]

(* ---------------------------- position stream -------------------------- *)
\* (mutant) one slot for every eligible pixel
bits_here_One(n, config) == 1

\* (mutant) two slots for every eligible pixel
bits_here_Two(n, config) == 2

\* bits_here = 2 if n >= mid_noise else 1
bits_here(n, config) == IF n >= config.mid_noise THEN 2 ELSE 1

\* (mutant) every pixel qualifies
Eligible_Any(n, config) == TRUE

\* n >= config.min_noise
Eligible(n, config) == n >= config.min_noise

\* the row-major pass: (y, x, bits_here) of every qualifying pixel
EligiblePixels(H, W, noise, config) ==
    LET all == [k \in 1..(H * W) |->
                   LET y == (k - 1) \div W
                       x == (k - 1) % W
                   IN  <<y, x, bits_here(noise[<<y, x>>], config)>>]
    IN  SelectSeq(all, LAMBDA t : Eligible(noise[<<t[1], t[2]>>], config))

\* (mutant) the two lower breakpoints exchanged
ChannelOf_Swapped(val) ==
    IF RandLess(val, 4, 10) THEN 0
    ELSE IF RandLess(val, 1, 10) THEN 1
    ELSE 2

\* the fixed channel bias: r < 0.1 -> 0, r < 0.4 -> 1, else 2
ChannelOf(val) ==
    IF RandLess(val, 1, 10) THEN 0
    ELSE IF RandLess(val, 4, 10) THEN 1
    ELSE 2

\* the channel pass: one rng.random() per slot, in shuffled pixel order
\* st is the pair (positions so far, generator)
RECURSIVE channel_draws(_, _, _)
channel_draws(st, pixel, n) ==
    IF n = 0 THEN st
    ELSE LET d == random(st.rng)
         IN  channel_draws([val |-> Append(st.val, <<pixel[1], pixel[2], ChannelOf(d.val)>>),
                            rng |-> d.rng], pixel, n - 1)
RECURSIVE channel_range(_, _, _, _)
channel_range(st, pixels, lo, hi) ==
    IF hi < lo \/ st.rng < 0 THEN st   \* (reading st.rng evaluates st first)
    ELSE IF hi = lo THEN channel_draws(st, pixels[lo], pixels[lo][3])
    ELSE LET mid == (hi + lo) \div 2
         IN  channel_range(channel_range(st, pixels, lo, mid), pixels, mid + 1, hi)

\* (mutant) the channel draws come first, on the row-major pixel list
_eligible_positions_Unshuffled(H, W, noise, config, rng) ==
    LET px == EligiblePixels(H, W, noise, config)
        ch == channel_range([val |-> <<>>, rng |-> rng], px, 1, Len(px))
    IN  shuffle(ch.rng, ch.val)

\* _eligible_positions: pixel shuffle, channel draws, slot shuffle
_eligible_positions(H, W, noise, config, rng) ==
    LET s1 == shuffle(rng, EligiblePixels(H, W, noise, config))
        ch == channel_range([val |-> <<>>, rng |-> s1.rng], s1.val, 1, Len(s1.val))
    IN  shuffle(ch.rng, ch.val)

(* ------------------------- bit-plane read / write ---------------------- *)
\* (mutant) the write clears bit 1 as well
SetLsb_Low2(byte, bit) == (byte \div 4) * 4 + bit

\* (v & 0xFE) | bit
SetLsb(byte, bit) == ClearLsb(byte) + bit

\* (mutant) bit 1 of the addressed byte is read
_read_bits_Bit1(arr, positions) ==
    [k \in 1..Len(positions) |-> (arr.px[positions[k]] \div 2) % 2]

\* _read_bits: bit 0 of the addressed channel byte, for each position
_read_bits(arr, positions) ==
    [k \in 1..Len(positions) |-> arr.px[positions[k]] % 2]

\* the write loops of embed_adaptive_rgb: for i in lo..hi (0-based),
\*   arr_out[positions[offset + i]] = (arr_out[...] & 0xFE) | bits[i]
\* st is (pixels so far, ok); positions[k] past the end of the list is an
\* IndexError, which ends the loop (ok = FALSE)
write_step(st, positions, bits, offset, i) ==
    IF ~st.ok THEN st
    ELSE IF offset + i >= Len(positions) THEN [st EXCEPT !.ok = FALSE]
    ELSE LET p == positions[offset + i + 1]
         IN  [st EXCEPT !.px[p] = SetLsb(st.px[p], bits[i + 1])]
RECURSIVE write_range(_, _, _, _, _, _)
write_range(st, positions, bits, offset, lo, hi) ==
    IF hi < lo \/ ~st.ok THEN st   \* (reading st.ok evaluates st first)
    ELSE IF hi = lo THEN write_step(st, positions, bits, offset, lo)
    ELSE LET mid == (hi + lo) \div 2
         IN  write_range(write_range(st, positions, bits, offset, lo, mid),
                         positions, bits, offset, mid + 1, hi)
write_bits(px, positions, bits, offset) ==
    write_range([px |-> px, ok |-> TRUE], positions, bits, offset, 0, Len(bits) - 1)

\* (mutant) no copy: arr_out is the loaded array itself, written in place
store_written_InPlace(e, from, w, next_pc) ==
    [e EXCEPT !.arr_out = [from EXCEPT !.px = w.px],
              !.arr = [from EXCEPT !.px = w.px],
              !.pc = IF w.ok THEN next_pc ELSE "error_index"]

\* arr_out = arr.copy(), then the loop writes into arr_out alone: e is the
\* call's locals, from the array the loop starts from, w the loop's result
store_written(e, from, w, next_pc) ==
    [e EXCEPT !.arr_out = [from EXCEPT !.px = w.px],
              !.pc = IF w.ok THEN next_pc ELSE "error_index"]

(* ------------------------------- capacity ------------------------------ *)
\* int(config.max_capacity_ratio * n) in double arithmetic; the ratio is the
\* fraction num/den. 1.0 and 1.5 are binary fractions and their products
\* with n are exact. 0.7 is not: the double is 0.7 - 0.4 * 2^-53, the exact
\* product is 7n/10 - 0.4n * 2^-53, and it is rounded to the nearest double
\* (ties to even). When 7n/10 is not an integer the rounding cannot cross an
\* integer. When 7n/10 is an integer q with 2^e <= q < 2^(e+1), doubles are
\* 2^(e-52) apart just below q, so the product rounds down to q - 2^(e-52),
\* and int() gives q - 1, exactly when 0.4n * 2^-53 > 2^(e-53), that is
\* 2n > 5 * 2^e (a tie rounds to q, whose significand is even); otherwise it
\* rounds to q. The first such n are 90, 170, 180, 330, ..., 360, 650, ..., 730.
hard_cap(config, n) ==
    LET r == config.max_capacity_ratio
        q == (r.num * n) \div r.den
    IN  IF /\ r.num = 7 /\ r.den = 10 /\ (7 * n) % 10 = 0 /\ q > 0
           /\ 2 * n > 5 * Pow2(bit_length(q) - 1)
        THEN q - 1 ELSE q

\* (mutant) the check lets one byte more through
PayloadTooLarge_Lenient(total_needed_bits, hard_cap_bits) ==
    total_needed_bits > hard_cap_bits + 8

\* if total_needed_bits > hard_cap_bits: raise ValueError("Payload too large")
PayloadTooLarge(total_needed_bits, hard_cap_bits) == total_needed_bits > hard_cap_bits

(* --------------------------- header validation ------------------------- *)
\* (mutant) the two checks in the other order
HeaderVerdict_LenFirst(h) ==
    IF h.payload_len_inv # Not32(h.payload_len) THEN "error_redundancy"
    ELSE IF h.magic # MAGIC THEN "error_magic"
    ELSE "header_ok"

\* (mutant) the length-complement check left out
HeaderVerdict_NoRedundancy(h) ==
    IF h.magic # MAGIC THEN "error_magic" ELSE "header_ok"

\* the two header checks of extract_adaptive_rgb, in the code's order
HeaderVerdict(h) ==
    IF h.magic # MAGIC THEN "error_magic"
    ELSE IF h.payload_len_inv # Not32(h.payload_len) THEN "error_redundancy"
    ELSE "header_ok"

\* (mutant) the CRC comparison left out
CrcVerdict_Skip(payload_bytes, payload_crc) == "crc_ok"

\* if crc != payload_crc: raise ValueError("CRC mismatch")
CrcVerdict(payload_bytes, payload_crc) ==
    IF crc32(payload_bytes) # payload_crc THEN "error_crc" ELSE "crc_ok"

(* -------------------------------- inputs ------------------------------- *)
\* the carrier images (Image.open(...).convert("RGB") as an H x W x 3 array):
\*   "smooth": a fine checkerboard, every pixel scores in 12..23;
\*   "mixed" : the same with a flat patch and blemishes, so that some pixels
\*             score below 12 and some 24 or more;
\*   "sparse": the checkerboard on the upper rows, a solid colour below;
\*   "flat"  : a solid colour, every pixel scores 0.
CarrierNames == {"smooth", "mixed", "sparse", "flat"}
SmoothPixel(y, x, ch) ==
    (IF (x + y) % 2 = 0 THEN 132 ELSE 100) + ((3 * y + 5 * x + ch) % 4)
MixedPixel(y, x, ch) ==
    IF y >= ImgH - 1 /\ x < 4 THEN 90 + ch
    ELSE IF y = 3 /\ x >= ImgW - 1
         THEN (IF (x + y) % 2 = 0 THEN 100 ELSE 40) + ((7 * y + 3 * x + 5 * ch) % 16)
         ELSE SmoothPixel(y, x, ch)
Carrier(name) ==
    [H |-> ImgH, W |-> ImgW,
     px |-> [p \in (0..(ImgH - 1)) \X (0..(ImgW - 1)) \X (0..2) |->
               CASE name = "smooth" -> SmoothPixel(p[1], p[2], p[3])
                 [] name = "mixed" -> MixedPixel(p[1], p[2], p[3])
                 [] name = "sparse" ->
                       IF p[1] >= 9 THEN 90 + p[3] ELSE SmoothPixel(p[1], p[2], p[3])
                 [] OTHER -> 120 + p[3]]]

\* the payload files: every length up to MaxPayloadLen, two contents each
Payloads ==
    {[i \in 1..n |-> (seed + 37 * i) % 256] : n \in 0..MaxPayloadLen, seed \in {65, 200}}

\* a larger carrier, a black and white checkerboard: every pixel scores 24
\* or more and gives two slots; and payload files of about WideLen bytes
WideCarrier ==
    [H |-> WideH, W |-> WideW,
     px |-> [p \in (0..(WideH - 1)) \X (0..(WideW - 1)) \X (0..2) |->
               IF (p[1] + p[2]) % 2 = 0 THEN 255 ELSE 0]]
WidePayloads ==
    {[i \in 1..n |-> (65 + 37 * i) % 256] : n \in (WideLen - 1)..(WideLen + 1)}

\* AdaptiveConfig: the defaults (12, 24, 0.7); the whole stream usable
\* (ratio 1.0); a higher 2-slot threshold; and a ratio above 1, which the
\* constructor does not refuse
DefaultConfig ==
    [min_noise |-> 12, mid_noise |-> 24, max_capacity_ratio |-> [num |-> 7, den |-> 10]]
Configs ==
    {DefaultConfig,
     [min_noise |-> 12, mid_noise |-> 24, max_capacity_ratio |-> [num |-> 1, den |-> 1]],
     [min_noise |-> 12, mid_noise |-> 40, max_capacity_ratio |-> [num |-> 7, den |-> 10]],
     [min_noise |-> 12, mid_noise |-> 24, max_capacity_ratio |-> [num |-> 3, den |-> 2]]}


(* ============================ initial state ============================ *)
NoArray == [H |-> 0, W |-> 0, px |-> <<>>]
NoHeader == [magic |-> <<>>, payload_len |-> <<>>, payload_len_inv |-> <<>>,
             payload_crc |-> <<>>]

Init ==
    /\ \E c \in CarrierNames, p \in Payloads :
          files = [cover |-> Carrier(c), payload |-> p, stego |-> NoArray,
                   recovered |-> <<>>, written |-> {}, flipped |-> -1]
    /\ \E k \in Keys, cfg \in Configs :
          emb = [pc |-> "start", key |-> k, config |-> cfg, arr |-> NoArray,
                 payload |-> <<>>, header_plain |-> <<>>, noise |-> <<>>, rng |-> -1,
                 positions |-> <<>>, total_needed_bits |-> 0, hard_cap_bits |-> 0,
                 header_bits_whitened |-> <<>>, arr_out |-> NoArray]
    /\ ext = [pc |-> "start", key |-> "", config |-> emb.config, arr |-> NoArray,
              noise |-> <<>>, rng |-> -1, positions |-> <<>>, header_bits |-> <<>>,
              header |-> NoHeader, payload_slots_read |-> 0, payload_bytes |-> <<>>]

(* ------------------------- embed_adaptive_rgb -------------------------- *)
\* lines 22-27: load the carrier and the payload, build the plain header
E_Load ==
    /\ emb.pc = "start"
    /\ emb' = [emb EXCEPT !.pc = "loaded", !.arr = files.cover,
                          !.payload = files.payload,
                          !.header_plain = _build_header(files.payload)]
    /\ UNCHANGED <<files, ext>>

\* line 29: the noise map of the carrier
E_Noise ==
    /\ emb.pc = "loaded"
    /\ emb' = IF PadFails(emb.arr) THEN [emb EXCEPT !.pc = "error_pad"]
              ELSE [emb EXCEPT !.pc = "scored",
                               !.noise = _compute_noise_scores(emb.arr)]
    /\ UNCHANGED <<files, ext>>

\* lines 30-31: a fresh generator from the key, then the position stream
E_Positions ==
    /\ emb.pc = "scored"
    /\ LET ps == _eligible_positions(emb.arr.H, emb.arr.W, emb.noise, emb.config,
                                     _rng_from_key(emb.key))
       IN  emb' = [emb EXCEPT !.pc = "positions", !.rng = ps.rng,
                              !.positions = ps.val]
    /\ UNCHANGED <<files, ext>>

\* lines 33-36: the capacity check
E_Capacity ==
    /\ emb.pc = "positions"
    /\ LET total_needed_bits == Len(emb.payload) * 8 + HEADER_SIZE_BITS
           hard_cap_bits == hard_cap(emb.config, Len(emb.positions))
       IN  emb' = [emb EXCEPT
                     !.total_needed_bits = total_needed_bits,
                     !.hard_cap_bits = hard_cap_bits,
                     !.pc = IF PayloadTooLarge(total_needed_bits, hard_cap_bits)
                            THEN "error_capacity" ELSE "admitted"]
    /\ UNCHANGED <<files, ext>>

\* lines 38-41: header whitening with the next 128 keystream bits
E_Whiten ==
    /\ emb.pc = "admitted"
    /\ LET header_bits == _bytes_to_bits(emb.header_plain)
           ks == _keystream_bits(emb.rng, HEADER_SIZE_BITS)
       IN  emb' = [emb EXCEPT
                     !.pc = "whitened", !.rng = ks.rng,
                     !.header_bits_whitened =
                         [k \in 1..Min(Len(header_bits), Len(ks.val)) |->
                             Xor1(header_bits[k], ks.val[k])]]
    /\ UNCHANGED <<files, ext>>

\* lines 43-47: copy the array, write the header bits
E_WriteHeader ==
    /\ emb.pc = "whitened"
    /\ LET w == write_bits(emb.arr.px, emb.positions,
                           SubSeq(emb.header_bits_whitened, 1, HEADER_SIZE_BITS), 0)
       IN  emb' = store_written(emb, emb.arr, w, "header_written")
    /\ UNCHANGED <<files, ext>>

\* lines 49-52: write the payload bits after the header
E_WritePayload ==
    /\ emb.pc = "header_written"
    /\ LET w == write_bits(emb.arr_out.px, emb.positions,
                           _bytes_to_bits(emb.payload), HEADER_SIZE_BITS)
       IN  emb' = store_written(emb, emb.arr_out, w, "payload_written")
    /\ UNCHANGED <<files, ext>>

\* line 54: save the stego image
E_Save ==
    /\ emb.pc = "payload_written"
    /\ emb' = [emb EXCEPT !.pc = "done"]
    /\ files' = [files EXCEPT !.stego = emb.arr_out, !.written = @ \cup {"stego"}]
    /\ UNCHANGED ext

(* ------------------------ extract_adaptive_rgb ------------------------- *)
\* lines 57-58: load the stego image; the caller passes a key
X_Load ==
    /\ ext.pc = "start"
    /\ "stego" \in files.written
    /\ \E k \in Keys :
          ext' = [ext EXCEPT !.pc = "loaded", !.key = k, !.arr = files.stego]
    /\ UNCHANGED <<files, emb>>

\* line 60: the noise map of the stego image
X_Noise ==
    /\ ext.pc = "loaded"
    /\ ext' = IF PadFails(ext.arr) THEN [ext EXCEPT !.pc = "error_pad"]
              ELSE [ext EXCEPT !.pc = "scored",
                               !.noise = _compute_noise_scores(ext.arr)]
    /\ UNCHANGED <<files, emb>>

\* lines 61-62: a fresh generator from the key, then the position stream
X_Positions ==
    /\ ext.pc = "scored"
    /\ LET ps == _eligible_positions(ext.arr.H, ext.arr.W, ext.noise, ext.config,
                                     _rng_from_key(ext.key))
       IN  ext' = [ext EXCEPT !.pc = "positions", !.rng = ps.rng,
                              !.positions = ps.val]
    /\ UNCHANGED <<files, emb>>

\* lines 64-69: read and unwhiten the header bits, parse the header
X_ReadHeader ==
    /\ ext.pc = "positions"
    /\ LET header_bits_whitened ==
               _read_bits(ext.arr, Slice(ext.positions, 0, HEADER_SIZE_BITS))
           ks == _keystream_bits(ext.rng, HEADER_SIZE_BITS)
           header_bits ==
               [k \in 1..Min(Len(header_bits_whitened), Len(ks.val)) |->
                   Xor1(header_bits_whitened[k], ks.val[k])]
       IN  ext' = [ext EXCEPT !.pc = "parsed", !.rng = ks.rng,
                              !.header_bits = header_bits,
                              !.header = _parse_header(_bits_to_bytes(header_bits))]
    /\ UNCHANGED <<files, emb>>

\* lines 70-71: the magic check, then the length-complement check
X_Validate ==
    /\ ext.pc = "parsed"
    /\ ext' = [ext EXCEPT !.pc = HeaderVerdict(ext.header)]
    /\ UNCHANGED <<files, emb>>

\* lines 73-75: read the payload region
X_ReadPayload ==
    /\ ext.pc = "header_ok"
    /\ LET total_payload_bits == IntSat(ext.header.payload_len) * 8
           payload_bits == Slice(ext.positions, HEADER_SIZE_BITS,
                                 HEADER_SIZE_BITS + total_payload_bits)
       IN  ext' = [ext EXCEPT !.pc = "payload_read",
                              !.payload_slots_read = Len(payload_bits),
                              !.payload_bytes =
                                  _bits_to_bytes(_read_bits(ext.arr, payload_bits))]
    /\ UNCHANGED <<files, emb>>

\* lines 77-78: the CRC check
X_CheckCrc ==
    /\ ext.pc = "payload_read"
    /\ ext' = [ext EXCEPT !.pc = CrcVerdict(ext.payload_bytes, ext.header.payload_crc)]
    /\ UNCHANGED <<files, emb>>

\* line 80: write the recovered payload
X_Write ==
    /\ ext.pc = "crc_ok"
    /\ ext' = [ext EXCEPT !.pc = "done"]
    /\ files' = [files EXCEPT !.recovered = ext.payload_bytes,
                              !.written = @ \cup {"recovered"}]
    /\ UNCHANGED emb

Next ==
    \/ E_Load \/ E_Noise \/ E_Positions \/ E_Capacity \/ E_Whiten
    \/ E_WriteHeader \/ E_WritePayload \/ E_Save
    \/ X_Load \/ X_Noise \/ X_Positions \/ X_ReadHeader \/ X_Validate
    \/ X_ReadPayload \/ X_CheckCrc \/ X_Write

Spec == Init /\ [][Next]_vars

(* ------------------------- a damaged stego image ----------------------- *)
\* Between the two calls one bit of the stego image is flipped: the LSB
\* that carries bit i of the header's length field (header bits 32..63).
FlipLsb(byte) == IF byte % 2 = 0 THEN byte + 1 ELSE byte - 1
Tamper ==
    /\ "stego" \in files.written
    /\ ext.pc = "start"
    /\ files.flipped = -1
    /\ \E i \in 0..31 :
          LET p == emb.positions[32 + i + 1]
          IN  files' = [files EXCEPT !.stego.px[p] = FlipLsb(@), !.flipped = i]
    /\ UNCHANGED <<emb, ext>>

\* the runs with the default configuration and the key "testkey", with the
\* damage allowed
InitTamper == Init /\ emb.config = DefaultConfig /\ emb.key = "testkey"
NextTamper == Next \/ Tamper
SpecTamper == InitTamper /\ [][NextTamper]_vars

\* embed alone, run on the larger carrier
InitCapacity ==
    /\ \E p \in WidePayloads :
          files = [cover |-> WideCarrier, payload |-> p, stego |-> NoArray,
                   recovered |-> <<>>, written |-> {}, flipped |-> -1]
    /\ \E k \in Keys, cfg \in Configs :
          emb = [pc |-> "start", key |-> k, config |-> cfg, arr |-> NoArray,
                 payload |-> <<>>, header_plain |-> <<>>, noise |-> <<>>, rng |-> -1,
                 positions |-> <<>>, total_needed_bits |-> 0, hard_cap_bits |-> 0,
                 header_bits_whitened |-> <<>>, arr_out |-> NoArray]
    /\ ext = [pc |-> "start", key |-> "", config |-> emb.config, arr |-> NoArray,
              noise |-> <<>>, rng |-> -1, positions |-> <<>>, header_bits |-> <<>>,
              header |-> NoHeader, payload_slots_read |-> 0, payload_bytes |-> <<>>]
NextEmbed ==
    \/ E_Load \/ E_Noise \/ E_Positions \/ E_Capacity
    \/ E_Whiten \/ E_WriteHeader \/ E_WritePayload \/ E_Save
SpecCapacity == InitCapacity /\ [][NextEmbed]_vars

\* embed and extract given image files of degenerate dimensions (no rows, no
\* columns, or neither); the stego file here is a file handed to extract, not
\* one embed wrote
DegenerateArrays ==
    {[H |-> h, W |-> w, px |-> <<>>] : h \in {0, ImgH}, w \in {0, ImgW}}
        \ {[H |-> ImgH, W |-> ImgW, px |-> <<>>]}
InitDegenerate ==
    /\ \E c \in DegenerateArrays, p \in Payloads :
          files = [cover |-> c, payload |-> p, stego |-> c,
                   recovered |-> <<>>, written |-> {"stego"}, flipped |-> -1]
    /\ \E k \in Keys, cfg \in Configs :
          emb = [pc |-> "start", key |-> k, config |-> cfg, arr |-> NoArray,
                 payload |-> <<>>, header_plain |-> <<>>, noise |-> <<>>, rng |-> -1,
                 positions |-> <<>>, total_needed_bits |-> 0, hard_cap_bits |-> 0,
                 header_bits_whitened |-> <<>>, arr_out |-> NoArray]
    /\ ext = [pc |-> "start", key |-> "", config |-> emb.config, arr |-> NoArray,
              noise |-> <<>>, rng |-> -1, positions |-> <<>>, header_bits |-> <<>>,
              header |-> NoHeader, payload_slots_read |-> 0, payload_bytes |-> <<>>]
NextDegenerate == E_Load \/ E_Noise \/ X_Load \/ X_Noise
SpecDegenerate == InitDegenerate /\ [][NextDegenerate]_vars

\* the first step of embed alone (the payload is read and its header built),
\* on payload files of every length up to MaxHeaderLen
HeaderPayloads == {[i \in 1..n |-> (65 + 37 * i) % 256] : n \in 0..MaxHeaderLen}
InitHeader ==
    /\ \E p \in HeaderPayloads :
          files = [cover |-> Carrier("flat"), payload |-> p, stego |-> NoArray,
                   recovered |-> <<>>, written |-> {}, flipped |-> -1]
    /\ emb = [pc |-> "start", key |-> "testkey", config |-> DefaultConfig,
              arr |-> NoArray, payload |-> <<>>, header_plain |-> <<>>,
              noise |-> <<>>, rng |-> -1, positions |-> <<>>,
              total_needed_bits |-> 0, hard_cap_bits |-> 0,
              header_bits_whitened |-> <<>>, arr_out |-> NoArray]
    /\ ext = [pc |-> "start", key |-> "", config |-> emb.config, arr |-> NoArray,
              noise |-> <<>>, rng |-> -1, positions |-> <<>>, header_bits |-> <<>>,
              header |-> NoHeader, payload_slots_read |-> 0, payload_bytes |-> <<>>]
NextHeader == E_Load
SpecHeader == InitHeader /\ [][NextHeader]_vars

(* ======================================================================= *)
(*            the whitespace text codec (core/text_stego.py)               *)
(* ======================================================================= *)
\* A text is a sequence of characters, a token a non-empty run of them.
\* The files record holds cover_text, payload, stego_text and recovered;
\* emb and ext hold the position of the embed and of the extract call.

\* \s of the regular expression, on the characters of the model's texts
IsSpaceChar(ch) == ch \in {" ", "\n", "\t"}

\* _bytes_to_bits of text_stego.py: most significant bit first
text_bytes_to_bits(data) ==
    [k \in 1..(8 * Len(data)) |-> BitOf(data[((k - 1) \div 8) + 1], 7 - ((k - 1) % 8))]

\* _bits_to_bytes of text_stego.py (the caller has len(bits) % 8 = 0)
text_bits_to_bytes(bits) ==
    [i \in 1..(Len(bits) \div 8) |->
        LET b(j) == bits[8 * (i - 1) + j + 1] % 2
        IN  128 * b(0) + 64 * b(1) + 32 * b(2) + 16 * b(3)
              + 8 * b(4) + 4 * b(5) + 2 * b(6) + b(7)]

\* _build_header of text_stego.py: payload_len.to_bytes(4, "big")
text_build_header(payload_len) ==
    [i \in 1..4 |-> (payload_len \div Pow2(8 * (4 - i))) % 256]

\* _parse_header of text_stego.py: int.from_bytes(header_bytes, "big"),
\* saturated at 2^24 (the value is only compared with a number of gaps)
text_parse_header(header_bits) ==
    LET b == text_bits_to_bytes(header_bits)
    IN  IF b[1] > 0 THEN Pow2(24) ELSE 65536 * b[2] + 256 * b[3] + b[4]

\* re.findall(r'\S+|\s+', text): the maximal runs of whitespace and of
\* non-whitespace characters, in order. The runs of text[lo..hi] are those of
\* its two halves, with the run that crosses the middle joined.
RECURSIVE tokenize_range(_, _, _)
tokenize_range(text, lo, hi) ==
    IF lo > hi THEN <<>>
    ELSE IF lo = hi THEN << <<text[lo]>> >>
    ELSE LET mid == (lo + hi) \div 2
             l == tokenize_range(text, lo, mid)
             r == tokenize_range(text, mid + 1, hi)
         IN  IF IsSpaceChar(l[Len(l)][1]) = IsSpaceChar(r[1][1])
             THEN SubSeq(l, 1, Len(l) - 1) \o << l[Len(l)] \o r[1] >> \o Tail(r)
             ELSE l \o r
_tokenize_preserve(text) == tokenize_range(text, 1, Len(text))

\* _is_space_gap: a token made of spaces only
_is_space_gap(token) == \A i \in 1..Len(token) : token[i] = " "

\* ''.join(tokens)
RECURSIVE JoinTokens(_, _, _)
JoinTokens(tokens, lo, hi) ==
    IF lo > hi THEN <<>>
    ELSE IF lo = hi THEN tokens[lo]
    ELSE LET mid == (lo + hi) \div 2
         IN  JoinTokens(tokens, lo, mid) \o JoinTokens(tokens, mid + 1, hi)

\* the number of spaces-only gaps among tokens[1..i]
GapRank(tokens, i) == Cardinality({k \in 1..i : _is_space_gap(tokens[k])})

\* embed_text_stego: the loop gives the k-th spaces-only gap the k-th bit of
\* header + payload, as one space for 0 and two for 1, until the bits run
\* out; bit_idx ends as the number of gaps used
embed_text_stego(original_text, payload) ==
    LET header == text_build_header(Len(payload))
        bitstream == text_bytes_to_bits(header \o payload)
        tokens == _tokenize_preserve(original_text)
        total_bits == Len(bitstream)
        encoded == [i \in 1..Len(tokens) |->
                      IF _is_space_gap(tokens[i]) /\ GapRank(tokens, i) <= total_bits
                      THEN IF bitstream[GapRank(tokens, i)] = 0
                           THEN <<" ">> ELSE <<" ", " ">>
                      ELSE tokens[i]]
        bit_idx == Min(GapRank(tokens, Len(tokens)), total_bits)
    IN  IF bit_idx < total_bits
        THEN [pc |-> "error_insufficient", text |-> <<>>]
        ELSE [pc |-> "done", text |-> JoinTokens(encoded, 1, Len(encoded))]

\* extract_text_stego
extract_text_stego(stego_text) ==
    LET tokens == _tokenize_preserve(stego_text)
        gaps == SelectSeq(tokens, _is_space_gap)
        bits == [k \in 1..Len(gaps) |-> Len(gaps[k]) - 1]
        payload_len == text_parse_header(SubSeq(bits, 1, 32))
        total_needed == 32 + payload_len * 8
        payload_bytes == text_bits_to_bytes(SubSeq(bits, 33, total_needed))
    IN  IF \E k \in 1..Len(gaps) : Len(gaps[k]) \notin {1, 2}
        THEN [pc |-> "error_run_length", payload |-> <<>>]
        ELSE IF Len(bits) < 32 THEN [pc |-> "error_header", payload |-> <<>>]
        ELSE IF Len(bits) < total_needed
             THEN [pc |-> "error_incomplete", payload |-> <<>>]
        ELSE IF Len(payload_bytes) # payload_len
             THEN [pc |-> "error_length", payload |-> <<>>]
        ELSE [pc |-> "done", payload |-> payload_bytes]

\* the cover texts: the word "a", then G times a gap and the word "a"; every
\* gap is `base` but the k-th, which is `special` (k > G: none is)
GapKinds == {<<" ">>, <<" ", " ">>, <<" ", " ", " ">>}
SpecialKinds == {<<" ">>, <<" ", " ", " ">>, <<"\n">>, <<" ", "\n">>}
SpecialAt == {1, 33, 41}
RECURSIVE CoverFrom(_, _, _, _, _)
CoverFrom(i, G, base, k, special) ==
    IF i > G THEN <<"a">>
    ELSE <<"a">> \o (IF i = k THEN special ELSE base) \o CoverFrom(i + 1, G, base, k, special)
CoverTexts ==
    {CoverFrom(1, G, base, k, special) :
        G \in 31..MaxGaps, base \in GapKinds, k \in SpecialAt, special \in SpecialKinds}
TextPayloads == {<<>>, <<65>>, <<200>>}

InitText ==
    /\ \E t \in CoverTexts, p \in TextPayloads :
          files = [cover_text |-> t, payload |-> p, stego_text |-> <<>>,
                   recovered |-> <<>>, written |-> {}]
    /\ emb = [pc |-> "start"]
    /\ ext = [pc |-> "start"]

\* embed_text_stego(input_text_path, payload_path, output_text_path)
TextEmbed ==
    /\ emb.pc = "start"
    /\ LET r == embed_text_stego(files.cover_text, files.payload)
       IN  /\ emb' = [emb EXCEPT !.pc = r.pc]
           /\ files' = IF r.pc = "done"
                       THEN [files EXCEPT !.stego_text = r.text,
                                          !.written = @ \cup {"stego_text"}]
                       ELSE files
    /\ UNCHANGED ext

\* extract_text_stego(stego_text_path, output_payload_path)
TextExtract ==
    /\ ext.pc = "start"
    /\ "stego_text" \in files.written
    /\ LET r == extract_text_stego(files.stego_text)
       IN  /\ ext' = [ext EXCEPT !.pc = r.pc]
           /\ files' = IF r.pc = "done"
                       THEN [files EXCEPT !.recovered = r.payload,
                                          !.written = @ \cup {"recovered"}]
                       ELSE files
    /\ UNCHANGED emb

NextText == TextEmbed \/ TextExtract
SpecText == InitText /\ [][NextText]_vars

(* ======================================================================= *)
(*                              the claims                                 *)
(* ======================================================================= *)
\* where a call stands
EmbedBeforeCapacity == emb.pc \in {"start", "loaded", "scored", "positions"}
EmbedFailed == emb.pc \in {"error_pad", "error_capacity", "error_index"}
ExtractBeforePositions == ext.pc \in {"start", "loaded", "scored"}
ExtractBeforeVerdict == ext.pc \in {"start", "loaded", "scored", "positions", "parsed"}
ExtractFailed == ext.pc \in {"error_pad", "error_magic", "error_redundancy", "error_crc"}
ExtractEnded == ExtractFailed \/ ext.pc = "done"
SameKeyAndConfig == ext.key = emb.key /\ ext.config = emb.config

\* total_needed_bits of the payload file, and the cap as the claim states it
NeededBits == HEADER_SIZE_BITS + 8 * Len(files.payload)
FloorCap ==
    (emb.config.max_capacity_ratio.num * Len(emb.positions))
        \div emb.config.max_capacity_ratio.den

\* two arrays of one shape whose bytes agree on their 7 higher bits
DiffersOnlyInBit0(a, b) ==
    /\ a.H = b.H /\ a.W = b.W /\ DOMAIN a.px = DOMAIN b.px
    /\ \A p \in DOMAIN a.px : ClearLsb(a.px[p]) = ClearLsb(b.px[p])

\* C1: round trip. Whenever embed saved a stego image and extract, run on it
\* with the same key and configuration, has ended, extract has succeeded and
\* the payload it wrote equals the embedded payload.
C1_RoundTrip ==
    (emb.pc = "done" /\ SameKeyAndConfig /\ ExtractEnded)
        => (ext.pc = "done" /\ "recovered" \in files.written
            /\ files.recovered = files.payload)

\* C2: no (row, col, channel) slot occurs twice in a position stream
\* returned by _eligible_positions.
NoRepeat(positions) ==
    \A i, j \in 1..Len(positions) : i # j => positions[i] # positions[j]
C2_NoRepeat ==
    /\ emb.pc = "positions" => NoRepeat(emb.positions)
    /\ ext.pc = "positions" => NoRepeat(ext.positions)
\* C2, as the code has it: a pixel scoring at least min_noise occurs once in
\* the stream, twice when it scores at least mid_noise, and no other pixel
\* occurs; the two slots of a pixel of the second kind may be the same slot,
\* and these are the only repeats.
SlotsOfPixel(positions, p) ==
    Cardinality({i \in 1..Len(positions) : <<positions[i][1], positions[i][2]>> = p})
StreamWellFormed(positions, noise, config) ==
    /\ \A p \in DOMAIN noise :
          SlotsOfPixel(positions, p)
              = IF noise[p] >= config.mid_noise THEN 2
                ELSE IF noise[p] >= config.min_noise THEN 1 ELSE 0
    /\ \A i, j \in 1..Len(positions) :
          (i # j /\ positions[i] = positions[j])
              => noise[<<positions[i][1], positions[i][2]>>] >= config.mid_noise
C2_RepeatsWithinPixel ==
    /\ emb.pc = "positions" => StreamWellFormed(emb.positions, emb.noise, emb.config)
    /\ ext.pc = "positions" => StreamWellFormed(ext.positions, ext.noise, ext.config)
C2_Witness == emb.pc = "positions" /\ ~NoRepeat(emb.positions)

\* C3: embedding never changes the noise map. The noise scores of the array
\* embed has written into (after the header loop, after the payload loop, or
\* cut short by an index error) equal those of the carrier, and the noise map
\* extract computes from the saved stego image equals the one embed computed.
C3_NoiseUnchanged ==
    /\ emb.pc \in {"header_written", "payload_written", "error_index"}
          => _compute_noise_scores(emb.arr_out) = emb.noise
    /\ ext.pc \notin {"start", "loaded"} => ext.noise = emb.noise
C3_Witness ==
    /\ emb.pc = "payload_written"
    /\ \E p \in DOMAIN emb.arr.px : emb.arr_out.px[p] # emb.arr.px[p]

\* C4: with the same key and configuration, and a stego image that differs
\* from the cover only in bit 0 of its bytes, the position stream extract
\* computes is the one embed computed, element by element.
C4_SameStream ==
    (~ExtractBeforePositions /\ SameKeyAndConfig /\ DiffersOnlyInBit0(ext.arr, emb.arr))
        => ext.positions = emb.positions
C4_Witness ==
    /\ ext.pc = "positions" /\ SameKeyAndConfig
    /\ DiffersOnlyInBit0(ext.arr, emb.arr) /\ ext.arr # emb.arr
    /\ Len(ext.positions) >= HEADER_SIZE_BITS

C6_CapacityBoundary ==
    ~EmbedBeforeCapacity
        => /\ emb.total_needed_bits = NeededBits
           /\ (emb.pc = "error_capacity") <=> (NeededBits > FloorCap)

\* C7: embedding is all or nothing. The capacity check comes before any
\* pixel is written; in every failing run the loaded carrier array is
\* unchanged and no stego file exists; the stego file exists only once both
\* write loops have run to their end, and holds their result.
C7_AllOrNothing ==
    /\ EmbedFailed => (emb.arr = files.cover /\ "stego" \notin files.written)
    /\ (EmbedBeforeCapacity \/ emb.pc \in {"error_capacity", "admitted", "whitened"})
          => emb.arr_out = NoArray
    /\ "stego" \in files.written => (emb.pc = "done" /\ files.stego = emb.arr_out)
C7_Witness ==
    /\ emb.pc = "error_index"
    /\ \E p \in DOMAIN emb.arr.px : emb.arr_out.px[p] # emb.arr.px[p]

\* C8: staged validation in extract. The magic check comes first (a header
\* failing it is reported as invalid magic whatever its length fields), the
\* length-complement check second, the payload region is read only after both
\* have passed, and the CRC verdict comes after the payload was read.
HeaderChecksPass ==
    /\ ext.header.magic = MAGIC
    /\ ext.header.payload_len_inv = Not32(ext.header.payload_len)
C8_StagedValidation ==
    /\ ext.pc = "error_magic" => ext.header.magic # MAGIC
    /\ (~ExtractBeforeVerdict /\ ext.header.magic # MAGIC) => ext.pc = "error_magic"
    /\ ext.pc = "error_redundancy"
          => (ext.header.magic = MAGIC
              /\ ext.header.payload_len_inv # Not32(ext.header.payload_len))
    /\ ext.pc \in {"header_ok", "payload_read", "error_crc", "crc_ok", "done"}
          => HeaderChecksPass
    /\ (ExtractBeforeVerdict \/ ext.pc \in {"error_magic", "error_redundancy", "header_ok"})
          => (ext.payload_slots_read = 0 /\ ext.payload_bytes = <<>>)
    /\ ext.pc \in {"error_crc", "crc_ok", "done"}
          => ext.payload_slots_read
               = Len(Slice(ext.positions, HEADER_SIZE_BITS,
                           HEADER_SIZE_BITS + 8 * IntSat(ext.header.payload_len)))
C8_Witness ==
    /\ ext.pc = "error_magic"
    /\ ext.header.payload_len_inv # Not32(ext.header.payload_len)

\* C9: extraction yields the full validated payload or nothing. The output
\* payload file exists only when the magic, length-complement and CRC32
\* checks have all passed, and then holds the bytes that were checked; in
\* every run that ended in an error no output file exists.
C9_FullOrNothing ==
    /\ "recovered" \in files.written
          => /\ ext.pc = "done"
             /\ HeaderChecksPass
             /\ crc32(files.recovered) = ext.header.payload_crc
             /\ files.recovered = ext.payload_bytes
    /\ ExtractFailed => "recovered" \notin files.written
C9_Witness == "recovered" \in files.written /\ Len(files.recovered) > 0

\* C10: header redundancy. When one bit of the length field of an embedded
\* header is flipped and the rest of the header is as embed built it, extract
\* fails with the header-redundancy error.
FlipAt(bits, k) == [bits EXCEPT ![k] = 1 - @]
LengthBitFlipped ==
    /\ files.flipped >= 0
    /\ ~ExtractBeforeVerdict \/ ext.pc = "parsed"
    /\ ext.header_bits = FlipAt(_bytes_to_bits(emb.header_plain), 32 + files.flipped + 1)
C10_HeaderRedundancy ==
    (LengthBitFlipped /\ ~ExtractBeforeVerdict) => ext.pc = "error_redundancy"
C10_Witness == LengthBitFlipped /\ ext.pc = "error_redundancy" /\ files.flipped = 31

\* C11: key sensitivity. When embed saved a stego image with one key and
\* extract, run on it with another key and the same configuration, has ended,
\* it has ended in the invalid-magic error or the header-redundancy error:
\* not in the CRC error and not in success.
WrongKey == ext.key \in Keys /\ ext.key # emb.key /\ ext.config = emb.config
NoPixelQualifies ==
    /\ emb.pc \notin {"start", "loaded"}
    /\ \A p \in DOMAIN emb.noise : emb.noise[p] < emb.config.min_noise
C12_EmptyStream ==
    (NoPixelQualifies /\ emb.pc # "scored")
        => /\ emb.positions = <<>>
           /\ (Len(files.payload) > 0 /\ emb.pc # "positions")
                 => /\ emb.pc = "error_capacity"
                    /\ emb.arr_out = NoArray
                    /\ "stego" \notin files.written
C12_Witness ==
    /\ NoPixelQualifies /\ emb.pc = "error_capacity"
    /\ Len(emb.positions) = 0 /\ Len(files.payload) > 0

\* C13: the header layout. Every header _build_header returns is 16 bytes:
\* the magic, then the payload length as 4 bytes little-endian, then 4 bytes
\* that are the bitwise complement of the length bytes, then the CRC32 of
\* the payload as 4 bytes little-endian.
C13_HeaderLayout ==
    emb.pc # "start"
        => LET h == emb.header_plain
               crc == crc32(files.payload)
           IN  /\ Len(h) = 16 /\ HEADER_SIZE_BYTES = 16 /\ HEADER_SIZE_BITS = 128
               /\ \A i \in 1..16 : h[i] \in 0..255
               /\ SubSeq(h, 1, 4) = <<65, 82, 83, 71>>
               /\ h[5] + 256 * h[6] + 65536 * h[7] = Len(files.payload) /\ h[8] = 0
               /\ \A i \in 5..8 : h[i + 4] = 255 - h[i]
               /\ \A i \in 0..3, j \in 0..7 : BitOf(h[13 + i], j) = crc[8 * i + j + 1]
C13_Witness ==
    /\ emb.pc = "loaded" /\ Len(files.payload) >= 256
    /\ emb.header_plain[6] = 1 /\ emb.header_plain[10] = 254

\* C14: embedding changes nothing but the targeted bits. Once embed writes
\* into its copy, every byte of the copy agrees with the carrier's byte on
\* its 7 higher bits, and a byte whose slot is not among the stream positions
\* written so far (the first 128 after the header loop, the first
\* N = 128 + 8 * payload length after the payload loop) is unchanged; the
\* saved stego image is that copy.
TargetedSlots(n) == {emb.positions[i] : i \in 1..Min(n, Len(emb.positions))}
FrameKept(out, n) ==
    LET slots == TargetedSlots(n)
    IN  /\ DiffersOnlyInBit0(out, emb.arr)
        /\ \A p \in (DOMAIN out.px) \ slots : out.px[p] = emb.arr.px[p]
C14_FrameEffect ==
    /\ emb.pc = "header_written" => FrameKept(emb.arr_out, HEADER_SIZE_BITS)
    /\ emb.pc \in {"payload_written", "error_index", "done"}
          => FrameKept(emb.arr_out, NeededBits)
    /\ "stego" \in files.written => FrameKept(files.stego, NeededBits)
C14_Witness ==
    /\ emb.pc = "done" /\ Len(files.payload) > 0 /\ ext.pc = "start"
    /\ \E p \in TargetedSlots(NeededBits) : files.stego.px[p] # emb.arr.px[p]
    /\ \E p \in DOMAIN emb.arr.px : p \notin TargetedSlots(NeededBits)

\* C15: degenerate image dimensions are rejected. For an image with H = 0 or
\* W = 0, embed and extract fail before the noise scorer is run: neither call
\* gets as far as entering _compute_noise_scores.
Degenerate(arr) == arr.H = 0 \/ arr.W = 0
ScorerEntered(pc) == pc \notin {"start", "loaded"}
C16_TextRoundTrip ==
    (emb.pc = "done" /\ ext.pc # "start")
        => (ext.pc = "done" /\ "recovered" \in files.written
            /\ files.recovered = files.payload)

\* C17: eligibility and allocation. In a stream _eligible_positions returns,
\* a pixel owns slots if and only if its noise score is at least min_noise,
\* 2 slots when the score is also at least mid_noise and 1 otherwise; every
\* slot addresses a qualifying pixel and a channel 0..2, and the stream's
\* length is the sum of the per-pixel slot counts.
SlotCount(n, config) ==
    IF n >= config.min_noise THEN (IF n >= config.mid_noise THEN 2 ELSE 1) ELSE 0
Allocation(positions, noise, config) ==
    /\ \A p \in DOMAIN noise : SlotsOfPixel(positions, p) = SlotCount(noise[p], config)
    /\ \A i \in 1..Len(positions) :
          /\ <<positions[i][1], positions[i][2]>> \in DOMAIN noise
          /\ noise[<<positions[i][1], positions[i][2]>>] >= config.min_noise
          /\ positions[i][3] \in 0..2
    /\ Len(positions)
          = Cardinality({p \in DOMAIN noise : SlotCount(noise[p], config) >= 1})
            + Cardinality({p \in DOMAIN noise : SlotCount(noise[p], config) = 2})
C17_Allocation ==
    /\ emb.pc = "positions" => Allocation(emb.positions, emb.noise, emb.config)
    /\ ext.pc = "positions" => Allocation(ext.positions, ext.noise, ext.config)
C17_Witness ==
    /\ emb.pc = "positions"
    /\ \E p \in DOMAIN emb.noise : SlotsOfPixel(emb.positions, p) = 0
    /\ \E q \in DOMAIN emb.noise : SlotsOfPixel(emb.positions, q) = 1
    /\ \E r \in DOMAIN emb.noise : SlotsOfPixel(emb.positions, r) = 2

\* C18: the order in which a call consumes its generator. Starting from the
\* generator seeded from the key, the call shuffles the pixel list, then
\* makes one uniform draw (two generator words) per slot in the order of the
\* shuffled pixels, then shuffles the slot list, then draws the 16 keystream
\* bytes (one word each) that whiten or unwhiten the header; an extract call
\* with the same key, configuration and noise map draws the keystream embed
\* drew.
RECURSIVE Advance(_, _)
Advance(rng, n) ==
    IF n = 0 \/ rng < 0 THEN rng   \* (reading rng evaluates it first)
    ELSE IF n = 1 THEN RngWord(rng)
    ELSE Advance(Advance(rng, n \div 2), n - (n \div 2))
InClaimedOrder(e, pc_stream, pc_keystream) ==
    LET a == shuffle(KeySeed(e.key), EligiblePixels(e.arr.H, e.arr.W, e.noise, e.config))
        b == channel_range([val |-> <<>>, rng |-> a.rng], a.val, 1, Len(a.val))
        c == shuffle(b.rng, b.val)
    IN  /\ b.rng = Advance(a.rng, 2 * Len(b.val))
        /\ e.pc = pc_stream => (e.positions = c.val /\ e.rng = c.rng)
        /\ e.pc = pc_keystream => (e.positions = c.val /\ e.rng = Advance(c.rng, 16))
KeystreamOf(rng) == _keystream_bits(rng, HEADER_SIZE_BITS).val
C18_ConsumptionOrder ==
    /\ emb.pc \in {"positions", "whitened"} => InClaimedOrder(emb, "positions", "whitened")
    /\ ext.pc \in {"positions", "parsed"} => InClaimedOrder(ext, "positions", "parsed")
    /\ emb.pc = "whitened"
          => LET plain == _bytes_to_bits(emb.header_plain)
                 ks == KeystreamOf(Advance(emb.rng, 65536 - 16))
             IN  emb.header_bits_whitened = [k \in 1..128 |-> Xor1(plain[k], ks[k])]
    /\ (emb.pc = "done" /\ ext.pc = "positions" /\ SameKeyAndConfig /\ ext.noise = emb.noise)
          => LET plain == _bytes_to_bits(emb.header_plain)
             IN  KeystreamOf(ext.rng)
                     = [k \in 1..128 |-> Xor1(emb.header_bits_whitened[k], plain[k])]
C18_Witness ==
    /\ emb.pc = "done" /\ ext.pc = "positions" /\ SameKeyAndConfig
    /\ ext.noise = emb.noise /\ Len(ext.positions) >= HEADER_SIZE_BITS
    /\ \E k \in 1..128 : KeystreamOf(ext.rng)[k] = 1

(* ------------------------------------------------------------------ *)
\* the header has been read by this extract call (lines 64-67 have run)
HeaderRead ==
    ext.pc \notin {"start", "loaded", "scored", "positions", "error_pad"}

\* the first 128 slots of embed's stream hold, in the array extract loaded,
\* the whitened header bits embed wrote for them
HeaderSlotsIntact ==
    /\ Len(emb.positions) >= HEADER_SIZE_BITS
    /\ Len(emb.header_bits_whitened) = HEADER_SIZE_BITS
    /\ \A k \in 1..HEADER_SIZE_BITS :
           ext.arr.px[emb.positions[k]] % 2 = emb.header_bits_whitened[k]

\* C19: whitening is its own inverse across the channel. When embed has
\* finished, extract runs with the same key and configuration and has read
\* the header, and the 128 header slots still hold the bits embed wrote for
\* them, the 128 header bits extract obtained by XOR-ing the bits it read
\* with its keystream are the 128 plain header bits embed built.
C19_WhiteningInverse ==
    (emb.pc = "done" /\ SameKeyAndConfig /\ HeaderRead /\ HeaderSlotsIntact)
        => (/\ Len(ext.header_bits) = HEADER_SIZE_BITS
            /\ ext.header_bits = _bytes_to_bits(emb.header_plain))

\* the case is reached with a keystream that is not all zero: the bits in
\* the image differ from the plain header bits, and extract recovered them
C19_Witness ==
    /\ emb.pc = "done" /\ SameKeyAndConfig /\ HeaderRead /\ HeaderSlotsIntact
    /\ emb.header_bits_whitened # _bytes_to_bits(emb.header_plain)
    /\ ext.header_bits = _bytes_to_bits(emb.header_plain)

(* ------------------------------------------------------------------ *)
\* the composition the two calls apply to a header between them:
\* _parse_header(_bits_to_bytes(list(_bytes_to_bits(header))))
ParsedBack(header) == _parse_header(_bits_to_bytes(_bytes_to_bits(header)))

\* bit k (0-based) of the serialization is bit k mod 8 of byte k div 8
LsbFirst(b) ==
    LET bits == _bytes_to_bits(b)
    IN  /\ Len(bits) = 8 * Len(b)
        /\ \A i \in 1..Len(b), j \in 0..7 :
               bits[8 * (i - 1) + j + 1] = (b[i] \div Pow2(j)) % 2

\* C20: header serialization round trip. The header is serialized to 128
\* bits, least significant bit first within each byte, in the byte order
\* magic, length, length complement, crc32; parsing the bytes rebuilt from
\* those bits returns (MAGIC, len(payload), NOT len(payload) mod 2^32,
\* CRC32(payload)); and _bits_to_bytes(_bytes_to_bits(b)) = b for the
\* byte strings of the run (the payload, the header, every single byte).
C20_HeaderRoundTrip ==
    emb.pc # "start"
        => LET h == emb.header_plain
               p == ParsedBack(h)
               crc == crc32(files.payload)
           IN  /\ Len(_bytes_to_bits(h)) = HEADER_SIZE_BITS
               /\ LsbFirst(h)
               /\ _bytes_to_bits(h)
                    = _bytes_to_bits(MAGIC)
                        \o U32(Len(files.payload))
                        \o Not32(U32(Len(files.payload)))
                        \o crc
               /\ p.magic = MAGIC
               /\ p.payload_len = U32(Len(files.payload))
               /\ p.payload_len_inv = Not32(U32(Len(files.payload)))
               /\ p.payload_crc = crc
               /\ _bits_to_bytes(_bytes_to_bits(h)) = h
               /\ _bits_to_bytes(_bytes_to_bits(files.payload)) = files.payload
               /\ \A v \in 0..255 : _bits_to_bytes(_bytes_to_bits(<<v>>)) = <<v>>

\* a payload long enough to hold every byte value and to need the second
\* length byte has gone through the round trip
C20_Witness ==
    /\ emb.pc = "loaded" /\ Len(files.payload) = 259
    /\ {files.payload[i] : i \in 1..Len(files.payload)} = 0..255
    /\ ParsedBack(emb.header_plain).payload_len = U32(259)

(* ------------------------------------------------------------------ *)
\* the slots in draw order: every shuffled pixel, bits_here times over
RECURSIVE SlotsInDrawOrder(_, _, _)
SlotsInDrawOrder(pixels, lo, hi) ==
    IF hi < lo THEN <<>>
    ELSE IF hi = lo
         THEN [k \in 1..pixels[lo][3] |-> <<pixels[lo][1], pixels[lo][2]>>]
    ELSE LET mid == (hi + lo) \div 2
         IN  SlotsInDrawOrder(pixels, lo, mid) \o SlotsInDrawOrder(pixels, mid + 1, hi)

\* the generator states before draw 1, 2, .., n when every draw is exactly
\* one random() (two words)
RECURSIVE DrawStates(_, _)
DrawStates(rng, n) ==
    IF n = 0 \/ rng < 0 THEN <<>>
    ELSE IF n = 1 THEN <<rng>>
    ELSE LET h == n \div 2
         IN  DrawStates(rng, h) \o DrawStates(Advance(rng, 2 * h), n - h)

\* the channel the claim names for a draw r = val / 2^26:
\* 0 when r < 0.1, 1 when 0.1 <= r < 0.4, 2 when r >= 0.4
ByBreakpoints(val) ==
    IF 10 * val < Pow2(26) THEN 0
    ELSE IF 10 * val < 4 * Pow2(26) THEN 1
    ELSE 2

ChannelsAsClaimed(e) ==
    LET a == shuffle(KeySeed(e.key), EligiblePixels(e.arr.H, e.arr.W, e.noise, e.config))
        slots == SlotsInDrawOrder(a.val, 1, Len(a.val))
        n == Len(slots)
        g == DrawStates(a.rng, n)
        drawn == [k \in 1..n |->
                    <<slots[k][1], slots[k][2], ByBreakpoints(random(g[k]).val)>>]
        c == shuffle(Advance(a.rng, 2 * n), drawn)
    IN  /\ e.positions = c.val
        /\ \A i \in 1..Len(e.positions) : e.positions[i][3] \in {0, 1, 2}

\* C21: channel assignment uses the fixed breakpoints. For each slot exactly
\* one uniform draw r in [0,1) is made, in the order of the shuffled pixels;
\* the slot's channel is 0 when r < 0.1, 1 when 0.1 <= r < 0.4 and 2 when
\* r >= 0.4; every slot's channel is 0, 1 or 2.
C21_ChannelBreakpoints ==
    /\ emb.pc = "positions" => ChannelsAsClaimed(emb)
    /\ ext.pc = "positions" => ChannelsAsClaimed(ext)

\* a stream in which all three channels were drawn
C21_Witness ==
    /\ emb.pc = "positions"
    /\ \A ch \in {0, 1, 2} :
          \E i \in 1..Len(emb.positions) : emb.positions[i][3] = ch

(* ================== several calls, interleaved ========================= *)
\* what one embed_adaptive_rgb call does from its inputs, start to end, with
\* its own generator, noise map and position stream (lines 21-54)
EmbedAlone(arr, payload, key, config) ==
    IF PadFails(arr) THEN [pc |-> "error_pad", arr_out |-> NoArray]
    ELSE
    LET noise == _compute_noise_scores(arr)
        ps == _eligible_positions(arr.H, arr.W, noise, config, KeySeed(key))
        needed == Len(payload) * 8 + HEADER_SIZE_BITS
        header_bits == _bytes_to_bits(_build_header(payload))
        ks == _keystream_bits(ps.rng, HEADER_SIZE_BITS)
        whitened == [k \in 1..HEADER_SIZE_BITS |-> Xor1(header_bits[k], ks.val[k])]
        w1 == write_bits(arr.px, ps.val, whitened, 0)
        w2 == write_bits(w1.px, ps.val, _bytes_to_bits(payload), HEADER_SIZE_BITS)
    IN  IF PayloadTooLarge(needed, hard_cap(config, Len(ps.val)))
        THEN [pc |-> "error_capacity", arr_out |-> NoArray]
        ELSE IF ~w1.ok THEN [pc |-> "error_index", arr_out |-> [arr EXCEPT !.px = w1.px]]
        ELSE IF ~w2.ok THEN [pc |-> "error_index", arr_out |-> [arr EXCEPT !.px = w2.px]]
        ELSE [pc |-> "done", arr_out |-> [arr EXCEPT !.px = w2.px]]

\* what one extract_adaptive_rgb call does from its inputs (lines 56-80)
ExtractAlone(arr, key, config) ==
    IF PadFails(arr) THEN [pc |-> "error_pad", payload |-> <<>>]
    ELSE
    LET noise == _compute_noise_scores(arr)
        ps == _eligible_positions(arr.H, arr.W, noise, config, KeySeed(key))
        read == _read_bits(arr, Slice(ps.val, 0, HEADER_SIZE_BITS))
        ks == _keystream_bits(ps.rng, HEADER_SIZE_BITS)
        header_bits == [k \in 1..Min(Len(read), Len(ks.val)) |-> Xor1(read[k], ks.val[k])]
        header == _parse_header(_bits_to_bytes(header_bits))
        verdict == HeaderVerdict(header)
        slots == Slice(ps.val, HEADER_SIZE_BITS,
                       HEADER_SIZE_BITS + IntSat(header.payload_len) * 8)
        payload_bytes == _bits_to_bytes(_read_bits(arr, slots))
    IN  IF verdict # "header_ok" THEN [pc |-> verdict, payload |-> <<>>]
        ELSE IF CrcVerdict(payload_bytes, header.payload_crc) # "crc_ok"
             THEN [pc |-> "error_crc", payload |-> <<>>]
        ELSE [pc |-> "done", payload |-> payload_bytes]

\* the calls a run makes after the first of each kind
MaxCalls == 1

\* an image from an earlier run is at the stego path, so that the extract
\* call can start at any time; the embed call will overwrite that file
InterleavePayloads == {<<65>>, <<200, 17>>}
InitInterleave ==
    /\ \E p \in InterleavePayloads :
          files = [cover |-> Carrier("mixed"), payload |-> p,
                   stego |-> EmbedAlone(Carrier("smooth"), <<66>>, "testkey",
                                        DefaultConfig).arr_out,
                   recovered |-> <<>>, written |-> {"stego"}, flipped |-> -1,
                   calls |-> 0]
    /\ emb = [pc |-> "start", key |-> "testkey", config |-> DefaultConfig, arr |-> NoArray,
             payload |-> <<>>, header_plain |-> <<>>, noise |-> <<>>, rng |-> -1,
             positions |-> <<>>, total_needed_bits |-> 0, hard_cap_bits |-> 0,
             header_bits_whitened |-> <<>>, arr_out |-> NoArray]
    /\ ext = [pc |-> "start", key |-> "", config |-> emb.config, arr |-> NoArray,
              noise |-> <<>>, rng |-> -1, positions |-> <<>>, header_bits |-> <<>>,
              header |-> NoHeader, payload_slots_read |-> 0, payload_bytes |-> <<>>]

\* the embed call has returned or raised; the caller makes another embed
\* call, whose locals are new
E_Again ==
    /\ emb.pc \in {"done", "error_pad", "error_capacity", "error_index"}
    /\ files.calls < MaxCalls
    /\ \E k \in Keys :
          emb' = [pc |-> "start", key |-> k, config |-> emb.config, arr |-> NoArray,
                  payload |-> <<>>, header_plain |-> <<>>, noise |-> <<>>, rng |-> -1,
                  positions |-> <<>>, total_needed_bits |-> 0, hard_cap_bits |-> 0,
                  header_bits_whitened |-> <<>>, arr_out |-> NoArray]
    /\ files' = [files EXCEPT !.calls = @ + 1]
    /\ UNCHANGED ext

\* the extract call has returned or raised; the caller makes another one
X_Again ==
    /\ ext.pc \in {"done", "error_pad", "error_magic", "error_redundancy", "error_crc"}
    /\ files.calls < MaxCalls
    /\ ext' = [pc |-> "start", key |-> "", config |-> ext.config, arr |-> NoArray,
               noise |-> <<>>, rng |-> -1, positions |-> <<>>, header_bits |-> <<>>,
               header |-> NoHeader, payload_slots_read |-> 0, payload_bytes |-> <<>>]
    /\ files' = [files EXCEPT !.calls = @ + 1]
    /\ UNCHANGED emb

NextInterleave == Next \/ E_Again \/ X_Again
SpecInterleave == InitInterleave /\ [][NextInterleave]_vars

\* C22: no state is shared between invocations. In every interleaving of
\* the steps of embed and extract calls, a call that has ended has the result
\* the same call produces when run alone on the inputs it loaded (the same
\* error, or the same stego array, or the same recovered payload), and no
\* step writes the configuration object.
C22_NoSharedState ==
    /\ [](/\ (emb.pc = "done" \/ EmbedFailed)
              => LET alone == EmbedAlone(emb.arr, emb.payload, emb.key, emb.config)
                 IN  /\ emb.pc = alone.pc
                     /\ emb.pc \in {"done", "error_index"} => emb.arr_out = alone.arr_out
                     /\ emb.pc = "done" => files.stego = alone.arr_out
          /\ ExtractEnded
              => LET alone == ExtractAlone(ext.arr, ext.key, ext.config)
                 IN  /\ ext.pc = alone.pc
                     /\ ext.pc = "done" => files.recovered = alone.payload)
    /\ [][emb'.config = emb.config /\ ext'.config = ext.config]_vars

\* an extract call that loaded the old image while an embed call was under
\* way, and ended after that embed call had replaced the file
C22_Witness ==
    /\ emb.pc = "done" /\ ExtractEnded
    /\ emb.rng >= 0 /\ ext.arr # files.stego

(* ------------------------------------------------------------------ *)
\* C23: the carrier is never mutated in place. No step of extract writes
\* the pixel array it loaded, and embed writes only to its copy arr_out: the
\* array a call loaded from its input image is the same after every step
\* of the call as when it was loaded, and the input image itself is not
\* written.
C23_CarrierNotMutated ==
    /\ [][/\ files'.cover = files.cover
          /\ emb.pc # "start" => emb'.arr = emb.arr
          /\ ext.pc # "start" => ext'.arr = ext.arr]_vars
    /\ [](emb.pc # "start" => emb.arr = files.cover)
    /\ [](ext.pc # "start" => ext.arr = files.stego)

\* both calls have run to their end, and embed's copy differs from the
\* array it loaded: pixels were written, none of them in the loaded array
C23_Witness ==
    /\ emb.pc = "done" /\ ext.pc = "done"
    /\ emb.arr_out # emb.arr /\ emb.arr = files.cover
    /\ \E p \in DOMAIN emb.arr.px : emb.arr_out.px[p] # emb.arr.px[p]

(* ------------------------------------------------------------------ *)
\* the bits embed wrote, in stream order: the whitened header, then the
\* payload, N = 128 + 8 * len(payload) bits
WrittenBits == emb.header_bits_whitened \o _bytes_to_bits(emb.payload)

\* the last index among the first n that addresses the slot of index i
LastWriteTo(positions, n, i) ==
    CHOOSE k \in i..n :
        /\ positions[k] = positions[i]
        /\ \A m \in (k + 1)..n : positions[m] # positions[i]

DistinctFirst(positions, n) ==
    \A i, j \in 1..n : i # j => positions[i] # positions[j]

RoundTripHolds == ext.pc = "done" /\ files.recovered = files.payload

\* C24: the conditional round trip. After an embed call that ended well,
\* every one of the first N = 128 + 8 * len(payload) slots holds the bit
\* written last to it, and an extract call with the same key and
\* configuration reads that bit at every index of the slot. If the first N
\* slots are pairwise distinct, that extract call returns exactly the
\* payload; if a slot occurs twice among them, it returns the payload only
\* if the bits written at the two indices are equal.
C24_ConditionalRoundTrip ==
    emb.pc = "done"
        => LET n == Len(WrittenBits)
               pos == emb.positions
           IN  /\ n = NeededBits /\ n <= Len(pos)
               /\ \A i \in 1..n :
                      files.stego.px[pos[i]] % 2 = WrittenBits[LastWriteTo(pos, n, i)]
               /\ (SameKeyAndConfig /\ ~ExtractBeforePositions /\ ext.pc # "error_pad")
                      => \A i \in 1..n :
                             ext.arr.px[ext.positions[i]] % 2
                                 = WrittenBits[LastWriteTo(pos, n, i)]
               /\ (SameKeyAndConfig /\ ExtractEnded /\ DistinctFirst(pos, n))
                      => RoundTripHolds
               /\ (SameKeyAndConfig /\ RoundTripHolds)
                      => \A i, j \in 1..n :
                             pos[i] = pos[j] => WrittenBits[i] = WrittenBits[j]

\* the round trip on a stream whose first N slots are pairwise distinct
C24_Witness ==
    /\ emb.pc = "done" /\ SameKeyAndConfig /\ RoundTripHolds
    /\ Len(files.payload) > 0
    /\ DistinctFirst(emb.positions, NeededBits)

(* ============== extract on an image nobody embedded into =============== *)
\* extract_adaptive_rgb accepts any image file. The images below are carriers
\* whose bit plane 0 was set by hand at the stream's slots: the checkerboard
\* on the upper `rows` rows over a solid colour (the fewer the rows, the
\* shorter the stream), and in bit 0 of the slots, in stream order, the bits
\* of a header MAGIC, len, NOT len, crc, whitened for the key, where crc is
\* the CRC32 of the bytes the payload region of the stream happens to hold.
ForgedRows == {1, 3, 5, 8, ImgH}
ForgedLens == {U32(0), U32(1), U32(8), U32(9), U32(20), Not32(U32(0))}

ForgedBase(rows) ==
    [H |-> ImgH, W |-> ImgW,
     px |-> [p \in (0..(ImgH - 1)) \X (0..(ImgW - 1)) \X (0..2) |->
               IF p[1] >= rows THEN 90 + p[3] ELSE SmoothPixel(p[1], p[2], p[3])]]

ForgedImage(rows, key, len) ==
    LET base == ForgedBase(rows)
        ps == _eligible_positions(base.H, base.W, _compute_noise_scores(base),
                                  DefaultConfig, KeySeed(key))
        ks == _keystream_bits(ps.rng, HEADER_SIZE_BITS)
        held == _bits_to_bytes(_read_bits(base,
                    Slice(ps.val, HEADER_SIZE_BITS, HEADER_SIZE_BITS + IntSat(len) * 8)))
        header == _bytes_to_bits(MAGIC) \o len \o Not32(len) \o crc32(held)
        bits == [k \in 1..HEADER_SIZE_BITS |-> Xor1(header[k], ks.val[k])]
    IN  [base EXCEPT !.px = write_bits(base.px, ps.val, bits, 0).px]

InitForged ==
    /\ \E rows \in ForgedRows, k \in Keys, len \in ForgedLens :
          files = [cover |-> NoArray, payload |-> <<>>,
                   stego |-> ForgedImage(rows, k, len),
                   recovered |-> <<>>, written |-> {"stego"}, flipped |-> -1]
    /\ emb = [pc |-> "start", key |-> "", config |-> DefaultConfig, arr |-> NoArray,
              payload |-> <<>>, header_plain |-> <<>>, noise |-> <<>>, rng |-> -1,
              positions |-> <<>>, total_needed_bits |-> 0, hard_cap_bits |-> 0,
              header_bits_whitened |-> <<>>, arr_out |-> NoArray]
    /\ ext = [pc |-> "start", key |-> "", config |-> emb.config, arr |-> NoArray,
              noise |-> <<>>, rng |-> -1, positions |-> <<>>, header_bits |-> <<>>,
              header |-> NoHeader, payload_slots_read |-> 0, payload_bytes |-> <<>>]
NextExtract ==
    \/ X_Load \/ X_Noise \/ X_Positions \/ X_ReadHeader \/ X_Validate
    \/ X_ReadPayload \/ X_CheckCrc \/ X_Write
SpecForged == InitForged /\ [][NextExtract]_vars

\* C25: extraction never succeeds on a stream too short to hold a header.
\* When the position stream extract computed has fewer than 128 slots, the
\* call does not go past the header checks, does not end well and writes no
\* output, whatever bit plane 0 of the image holds.
ExtractHasStream == ~ExtractBeforePositions /\ ext.pc # "error_pad"
C25_ShortStreamRejected ==
    (ExtractHasStream /\ Len(ext.positions) < HEADER_SIZE_BITS)
        => /\ ext.pc \in {"positions", "parsed", "error_magic", "error_redundancy"}
           /\ "recovered" \notin files.written

(* ------------------------------------------------------------------ *)
\* C26: a successful extraction has the declared length. Whenever extract
\* ends well, on a stego image or on any other image, the payload it wrote
\* has exactly the number of bytes the header's length field declares; a
\* declared length that reaches past the end of the position stream never
\* ends in the successful extraction of a shorter payload.
DeclaredLen == IntSat(ext.header.payload_len)
C26_DeclaredLength ==
    ext.pc = "done" => Len(files.recovered) = DeclaredLen

(* ------------------------------------------------------------------ *)
\* max_capacity_ratio is in (0, 1]
RatioAtMostOne(config) ==
    /\ config.max_capacity_ratio.num > 0
    /\ config.max_capacity_ratio.num <= config.max_capacity_ratio.den

CapacityCheckPassed ==
    emb.pc \in {"admitted", "whitened", "header_written", "payload_written",
                "error_index", "done"}

\* C27: index safety of embedding. With max_capacity_ratio in (0, 1], once
\* the capacity check has passed every index the header and payload write
\* loops use, 0 .. 128 + 8 * len(payload) - 1, is an index of the position
\* stream, and embed raises no index error.
C27_IndexSafety ==
    (RatioAtMostOne(emb.config) /\ CapacityCheckPassed)
        => /\ emb.total_needed_bits = HEADER_SIZE_BITS + 8 * Len(emb.payload)
           /\ \A i \in 0..(emb.total_needed_bits - 1) : i + 1 \in DOMAIN emb.positions
           /\ emb.pc # "error_index"

\* the tightest case: ratio 1.0 and a payload that fills the stream to its
\* last slot has been written
C27_Witness ==
    /\ emb.pc = "done"
    /\ emb.config.max_capacity_ratio = [num |-> 1, den |-> 1]
    /\ emb.total_needed_bits = Len(emb.positions)

(* ===================== embedding into a stego image ==================== *)
\* the caller embeds once, then calls embed again with the image the first
\* call wrote as the input image, and the same payload, key and configuration;
\* files.first keeps what the first call wrote, files.round counts the calls
InitTwice ==
    /\ \E c \in CarrierNames, p \in Payloads :
          files = [cover |-> Carrier(c), payload |-> p, stego |-> NoArray,
                   recovered |-> <<>>, written |-> {}, flipped |-> -1,
                   first |-> NoArray, round |-> 1]
    /\ \E k \in Keys, cfg \in Configs :
          emb = [pc |-> "start", key |-> k, config |-> cfg, arr |-> NoArray,
                 payload |-> <<>>, header_plain |-> <<>>, noise |-> <<>>, rng |-> -1,
                 positions |-> <<>>, total_needed_bits |-> 0, hard_cap_bits |-> 0,
                 header_bits_whitened |-> <<>>, arr_out |-> NoArray]
    /\ ext = [pc |-> "start", key |-> "", config |-> emb.config, arr |-> NoArray,
              noise |-> <<>>, rng |-> -1, positions |-> <<>>, header_bits |-> <<>>,
              header |-> NoHeader, payload_slots_read |-> 0, payload_bytes |-> <<>>]

E_Reembed ==
    /\ emb.pc = "done"
    /\ files.round = 1
    /\ files' = [files EXCEPT !.cover = files.stego, !.first = files.stego,
                              !.stego = NoArray, !.written = {}, !.round = 2]
    /\ emb' = [pc |-> "start", key |-> emb.key, config |-> emb.config, arr |-> NoArray,
               payload |-> <<>>, header_plain |-> <<>>, noise |-> <<>>, rng |-> -1,
               positions |-> <<>>, total_needed_bits |-> 0, hard_cap_bits |-> 0,
               header_bits_whitened |-> <<>>, arr_out |-> NoArray]
    /\ UNCHANGED ext

NextTwice == NextEmbed \/ E_Reembed
SpecTwice == InitTwice /\ [][NextTwice]_vars

\* C28: embedding is idempotent. When a first embed call admitted the
\* payload and wrote a stego image, a second embed call with that stego image
\* as its input and the same payload, key and configuration does not fail,
\* and the pixel array it writes is identical to the stego image it read.
C28_Idempotent ==
    files.round = 2
        => /\ ~EmbedFailed
           /\ emb.pc = "done" => emb.arr_out = files.first
           /\ "stego" \in files.written
                 => (emb.pc = "done" /\ files.stego = files.first)

\* the second call has written its image, and the first call had changed
\* pixels of the carrier it was given
C28_Witness ==
    /\ files.round = 2 /\ emb.pc = "done" /\ "stego" \in files.written
    /\ Len(emb.payload) > 0
    /\ files.stego = files.first
    /\ files.first # Carrier("mixed") /\ DiffersOnlyInBit0(files.first, Carrier("mixed"))
====
